---- MODULE Spec2Model ----
(***************************************************************************)
(* SEMF scoring engine (src/src/utils/semfScoring.ts) and the sentence     *)
(* ordering question that feeds it (src/src/components/TestResults.tsx).   *)
(*                                                                         *)
(* Texts are sequences of one-character strings, so that trim, case        *)
(* folding, substring search and word splitting are computed character by  *)
(* character.  An absent answer (answers[i] === undefined) is the value    *)
(* Undefined, which is no text.  A normalized score is the exact fraction  *)
(* num/den; comparisons against the integer cutoffs are cross-multiplied.  *)
(* For the raw scores 0..20, 0..24 and 0..12 the IEEE double the code      *)
(* computes lies on the same side of every cutoff as the exact fraction.   *)
(*                                                                         *)
(* Five specifications:                                                    *)
(*   Spec       one call of calculateSEMFLevel: the grading loops of       *)
(*              calculateActualScores, one step per question (answers[i]   *)
(*              is read exactly once, at step i, and never written, so the *)
(*              answer is chosen when it is read), then the level          *)
(*              computation and report assembly in one step.               *)
(*   SpecLevel  mapToLevel and applyTieBreaker on a grid of normalized     *)
(*              scores.                                                    *)
(*   SpecGrade  the body of one grading loop iteration on one question and *)
(*              one answer text.                                           *)
(*   SpecCall   calculateSEMFLevel as one step on a whole AnswerSet, a     *)
(*              function from the question ids that have an answer to the  *)
(*              answer texts.  Only here the summary carries the Test      *)
(*              Completion figure, which counts the entries of the         *)
(*              AnswerSet.                                                 *)
(*   SpecOrder  the SentenceOrderingQuestion component of                  *)
(*              src/src/components/TestResults.tsx, one step per event     *)
(*              handler.                                                   *)
(***************************************************************************)
EXTENDS Integers, Sequences, FiniteSets, TLC

VARIABLES pc, i, grammarScore, readingWritingScore, listeningScore, result,
          userAnswer, normalizedScore, grammarVocabNorm, baseLevel, tieBreak,
          answers, sentences, selectedAnswer, orderedSentences, draggedItem,
          touchStartY, isDragging, answerString, clientY

vars == <<pc, i, grammarScore, readingWritingScore, listeningScore, result,
          userAnswer, normalizedScore, grammarVocabNorm, baseLevel, tieBreak,
          answers, sentences, selectedAnswer, orderedSentences, draggedItem,
          touchStartY, isDragging, answerString, clientY>>

(***************************************************************************)
(* Bounds of the model.                                                    *)
(***************************************************************************)
\* longest single-letter answer text enumerated by SpecGrade
MaxLen == 3
\* longest run of whitespace put around an ordered-list answer by SpecGrade
MaxPad == 1
\* SpecLevel enumerates the normalized scores k/GridDen
GridDen == 12
\* SpecLevel enumerates scores from -Margin to 50 + Margin
Margin == 3
\* SpecGrade pads free-text answers to every length within LengthSpan of 20
LengthSpan == 1
\* SpecGrade enumerates essays of every word count within WordSpan of 80
\* and of 200
WordSpan == 1

(***************************************************************************)
(* JavaScript strings.                                                     *)
(***************************************************************************)
Undefined == <<"undefined">>

UpperLetters ==
    <<"A", "B", "C", "D", "E", "F", "G", "H", "I", "J", "K", "L", "M",
      "N", "O", "P", "Q", "R", "S", "T", "U", "V", "W", "X", "Y", "Z">>

LowerLetters ==
    <<"a", "b", "c", "d", "e", "f", "g", "h", "i", "j", "k", "l", "m",
      "n", "o", "p", "q", "r", "s", "t", "u", "v", "w", "x", "y", "z">>

Whitespace == {" ", "\t", "\n"}

upperChar(c) ==
    IF \E k \in 1..26 : LowerLetters[k] = c
    THEN UpperLetters[CHOOSE k \in 1..26 : LowerLetters[k] = c]
    ELSE c

lowerChar(c) ==
    IF \E k \in 1..26 : UpperLetters[k] = c
    THEN LowerLetters[CHOOSE k \in 1..26 : UpperLetters[k] = c]
    ELSE c

toUpperCase(s) == [k \in 1..Len(s) |-> upperChar(s[k])]

toLowerCase(s) == [k \in 1..Len(s) |-> lowerChar(s[k])]

RECURSIVE trimStart(_)
trimStart(s) ==
    IF s # <<>> /\ Head(s) \in Whitespace THEN trimStart(Tail(s)) ELSE s

RECURSIVE trimEnd(_)
trimEnd(s) ==
    IF s # <<>> /\ s[Len(s)] \in Whitespace
    THEN trimEnd(SubSeq(s, 1, Len(s) - 1))
    ELSE s

trim(s) == trimEnd(trimStart(s))

includes(s, sub) ==
    \E k \in 0..(Len(s) - Len(sub)) : SubSeq(s, k + 1, k + Len(sub)) = sub

\* s.split(/\s+/).length for a trimmed, non-empty s: one more than the
\* number of maximal whitespace runs
splitLength(s) ==
    1 + Cardinality({k \in 2..Len(s) :
                        s[k] \in Whitespace /\ s[k - 1] \notin Whitespace})

(***************************************************************************)
(* Static tables.                                                          *)
(***************************************************************************)
S1 == <<"S", "1">>
S2 == <<"S", "2">>
S3 == <<"S", "3">>
S4 == <<"S", "4">>
S5 == <<"S", "5">>

LEVEL_DESCRIPTIONS ==
    (S1 :> "Basic user - understands and uses simple expressions.") @@
    (S2 :> "Elementary user - can handle short, routine exchanges.") @@
    (S3 :> "Independent user - can deal with most everyday situations.") @@
    (S4 :> "Proficient user - can interact fluently and spontaneously.") @@
    (S5 :> "Mastery - can express ideas precisely in complex situations.")

\* Object.entries(LEVEL_CUTOFFS), in insertion order
LEVEL_CUTOFFS ==
    << [level |-> S1, min |-> 0,  max |-> 15],
       [level |-> S2, min |-> 16, max |-> 25],
       [level |-> S3, min |-> 26, max |-> 33],
       [level |-> S4, min |-> 34, max |-> 42],
       [level |-> S5, min |-> 43, max |-> 50] >>

\* the letters of the single-letter keys, by question id; "-" where the
\* key has no single-letter entry (36-40 are ordered lists, 41-44 have none)
KeyLetters ==
    << "B", "A", "C", "B", "C",   "C", "B", "A", "C", "A",
       "B", "B", "C", "C", "C",   "B", "B", "B", "C", "B",
       "C", "C", "B", "D", "B",   "C", "B", "B", "B", "B",
       "B", "B", "C", "A", "C",
       "-", "-", "-", "-", "-",   "-", "-", "-", "-",
       "B", "B", "C", "B", "B", "C",   "B", "B", "B", "B", "C", "B" >>

OrderingKeys ==
    << <<"B", ",", " ", "C", ",", " ", "D", ",", " ", "A">>,
       <<"C", ",", " ", "B", ",", " ", "A", ",", " ", "D">>,
       <<"A", ",", " ", "C", ",", " ", "D", ",", " ", "B">>,
       <<"B", ",", " ", "C", ",", " ", "D", ",", " ", "A">>,
       <<"C", ",", " ", "B", ",", " ", "D", ",", " ", "A">> >>

\* CORRECT_ANSWERS[q]; a missing key reads as undefined
CORRECT_ANSWERS ==
    [q \in 1..56 |->
        IF q \in 36..40 THEN OrderingKeys[q - 35]
        ELSE IF q \in 41..44 THEN Undefined
        ELSE <<KeyLetters[q]>>]

TEXT_ANSWER_KEYWORDS ==
    41 :> <<
        <<"f", "l", "e", "x", "i", "b", "i", "l", "i", "t", "y">>,
        <<"c", "o", "m", "m", "u", "t", "e">>,
        <<"t", "a", "l", "e", "n", "t">>,
        <<"g", "l", "o", "b", "a", "l">>,
        <<"r", "e", "d", "u", "c", "e", "d">>,
        <<"a", "c", "c", "e", "s", "s">>
    >> @@
    42 :> <<
        <<"i", "s", "o", "l", "a", "t", "i", "o", "n">>,
        <<"c", "u", "l", "t", "u", "r", "e">>,
        <<"s", "e", "c", "u", "r", "i", "t", "y">>,
        <<"c", "h", "a", "l", "l", "e", "n", "g", "e", "s">>,
        <<"d", "i", "f", "f", "i", "c", "u", "l", "t", "i", "e", "s">>
    >> @@
    43 :> <<
        <<"m", "a", "x", "i", "m", "i", "z", "e">>,
        <<"b", "e", "n", "e", "f", "i", "t", "s">>,
        <<"m", "i", "t", "i", "g", "a", "t", "e">>,
        <<"d", "r", "a", "w", "b", "a", "c", "k", "s">>,
        <<"s", "t", "r", "a", "t", "e", "g", "i", "e", "s">>,
        <<"d", "e", "v", "e", "l", "o", "p", "i", "n", "g">>
    >>

ArgumentWords ==
    << <<"a", "d", "v", "a", "n", "t", "a", "g", "e">>,
       <<"d", "i", "s", "a", "d", "v", "a", "n", "t", "a", "g", "e">>,
       <<"b", "e", "n", "e", "f", "i", "t">>,
       <<"c", "h", "a", "l", "l", "e", "n", "g", "e">> >>

(***************************************************************************)
(* calculateActualScores: what one answer earns in each grading loop.      *)
(***************************************************************************)
\* mutation: the answer is trimmed but not upper-cased
letterMatchesCaseSensitive(q, a) ==
    LET answer == IF a = Undefined THEN Undefined ELSE trim(a)
    IN  answer = CORRECT_ANSWERS[q]

\* answers[i]?.trim().toUpperCase() === CORRECT_ANSWERS[i]
letterMatches(q, a) ==
    LET answer == IF a = Undefined THEN Undefined ELSE toUpperCase(trim(a))
    IN  answer = CORRECT_ANSWERS[q]

\* mutation: the answer is upper-cased as in the single-letter loops
orderingMatchesUpperCased(q, a) ==
    LET answer == IF a = Undefined THEN Undefined ELSE toUpperCase(trim(a))
    IN  answer = CORRECT_ANSWERS[q]

\* answers[i]?.trim() === CORRECT_ANSWERS[i]
orderingMatches(q, a) ==
    LET answer == IF a = Undefined THEN Undefined ELSE trim(a)
    IN  answer = CORRECT_ANSWERS[q]

\* answers[i]?.toLowerCase() || ''
textAnswer(a) == IF a = Undefined THEN <<>> ELSE toLowerCase(a)

keywordMatches(q, a) ==
    LET keywords == TEXT_ANSWER_KEYWORDS[q]
    IN  Cardinality({k \in 1..Len(keywords) :
                        includes(textAnswer(a), toLowerCase(keywords[k]))})

\* mutation: one keyword is enough
textMatchesOneKeyword(q, a) ==
    keywordMatches(q, a) >= 1 /\ Len(textAnswer(a)) >= 20

textMatches(q, a) == keywordMatches(q, a) >= 2 /\ Len(textAnswer(a)) >= 20

\* answers[44]?.trim() || ''
essayAnswer(a) == IF a = Undefined THEN <<>> ELSE trim(a)

wordCount(a) ==
    IF essayAnswer(a) # <<>> THEN splitLength(essayAnswer(a)) ELSE 0

hasArgument(a) ==
    \E k \in 1..Len(ArgumentWords) :
        includes(toLowerCase(essayAnswer(a)), ArgumentWords[k])

\* mutation: the word count bounds are exclusive
essayMatchesExclusive(a) ==
    /\ wordCount(a) > 80
    /\ wordCount(a) < 200
    /\ Len(essayAnswer(a)) > 0
    /\ hasArgument(a)

essayMatches(a) ==
    /\ wordCount(a) >= 80
    /\ wordCount(a) <= 200
    /\ Len(essayAnswer(a)) > 0
    /\ hasArgument(a)

(***************************************************************************)
(* calculateSEMFLevel: normalization, level mapping, tie-break.            *)
(***************************************************************************)
\* mutation: the score is scaled to a percentage
normalizePercent(raw, max) == [num |-> raw * 100, den |-> max]

\* (raw / max) * 50 as an exact fraction
normalize(raw, max) == [num |-> raw * 50, den |-> max]

\* comparisons of a fraction with an integer
\* mutation: greater-than instead of greater-or-equal
geqStrict(x, k) == x.num > k * x.den

geq(x, k) == x.num >= k * x.den
\* mutation: less-than instead of less-or-equal
leqStrict(x, k) == x.num < k * x.den

leq(x, k) == x.num <= k * x.den
gt(x, k)  == x.num >  k * x.den
lt(x, k)  == x.num <  k * x.den

\* mutation: the upper bound of a band is exclusive
inRangeExclusive(x, range) == geq(x, range.min) /\ lt(x, range.max)

inRange(x, range) == geq(x, range.min) /\ leq(x, range.max)

RECURSIVE mapToLevelFrom(_, _)
mapToLevelFrom(k, x) ==
    IF k > Len(LEVEL_CUTOFFS) THEN S1
    ELSE IF inRange(x, LEVEL_CUTOFFS[k]) THEN LEVEL_CUTOFFS[k].level
    ELSE mapToLevelFrom(k + 1, x)

\* mutation: a score above the table takes the highest band
mapToLevelClamped(x) == IF x.num > 50 * x.den THEN S5 ELSE mapToLevelFrom(1, x)

mapToLevel(x) == mapToLevelFrom(1, x)

\* mutation: the index is taken one-based
levelIndexOneBased(k) == k

\* Object.keys(LEVEL_CUTOFFS).indexOf(level), zero-based
levelIndexOf(k) == k - 1

\* Object.keys(LEVEL_CUTOFFS)[idx]; out of range reads as undefined
levelAtIndex(idx) ==
    IF idx \in 0..(Len(LEVEL_CUTOFFS) - 1) THEN LEVEL_CUTOFFS[idx + 1].level
    ELSE Undefined

grammarThreshold == 35

\* mutation: the window below a boundary is one point wide
withinLowerBoundaryNarrow(x, range) ==
    geq(x, range.min - 1) /\ lt(x, range.min)

withinLowerBoundary(x, range) == geq(x, range.min - 2) /\ lt(x, range.min)

\* mutation: the window above a boundary has no lower end
withinUpperBoundaryNoLower(x, range) == leq(x, range.max + 2)

withinUpperBoundary(x, range) == gt(x, range.max) /\ leq(x, range.max + 2)

\* mutation: the lowest band is not excluded
hasLowerLevelUnchecked(k) == levelIndexOf(k) >= 0

hasLowerLevel(k) == levelIndexOf(k) > 0

RECURSIVE tieBreakerFrom(_, _, _)
tieBreakerFrom(k, x, gv) ==
    IF k > Len(LEVEL_CUTOFFS)
    THEN [level |-> mapToLevel(x), tieBreakerApplied |-> FALSE]
    ELSE IF withinLowerBoundary(x, LEVEL_CUTOFFS[k])
            /\ geq(gv, grammarThreshold)
    THEN [level |-> LEVEL_CUTOFFS[k].level, tieBreakerApplied |-> TRUE]
    ELSE IF withinUpperBoundary(x, LEVEL_CUTOFFS[k])
            /\ lt(gv, grammarThreshold)
            /\ hasLowerLevel(k)
    THEN [level |-> levelAtIndex(levelIndexOf(k) - 1),
          tieBreakerApplied |-> TRUE]
    ELSE tieBreakerFrom(k + 1, x, gv)

applyTieBreaker(x, gv) == tieBreakerFrom(1, x, gv)

(***************************************************************************)
(* Overall level.                                                          *)
(***************************************************************************)
Digits == <<"0", "1", "2", "3", "4", "5", "6", "7", "8", "9">>

\* the model's NaN: below every level number, so that min propagates it
NaN == -1

isDigit(c) == \E d \in 1..10 : Digits[d] = c

digitValue(c) == (CHOOSE d \in 1..10 : Digits[d] = c) - 1

\* parseInt of a text: its leading decimal digits, NaN when there are none
RECURSIVE parseDigits(_, _)
parseDigits(s, acc) ==
    IF s # <<>> /\ isDigit(Head(s))
    THEN parseDigits(Tail(s), acc * 10 + digitValue(Head(s)))
    ELSE acc

parseInt(s) ==
    IF s # <<>> /\ isDigit(Head(s)) THEN parseDigits(s, 0) ELSE NaN

\* parseInt(level.substring(1))
levelToNumber(level) == parseInt(Tail(level))

\* mutation: the higher of the two skills governs
mathMinAsMax(a, b) == IF a >= b THEN a ELSE b

mathMin(a, b) == IF a <= b THEN a ELSE b

\* String(n) for the numbers the engine prints
RECURSIVE numberToString(_)
numberToString(n) ==
    IF n = NaN THEN <<"N", "a", "N">>
    ELSE IF n < 10 THEN <<Digits[n + 1]>>
    ELSE numberToString(n \div 10) \o <<Digits[(n % 10) + 1]>>

overallLevelOf(readingWritingLevel, listeningLevel) ==
    <<"S">> \o numberToString(mathMin(levelToNumber(readingWritingLevel),
                                       levelToNumber(listeningLevel)))

(***************************************************************************)
(* Report assembly.                                                        *)
(***************************************************************************)
\* Math.round(x * 10) / 10, in tenths
roundToTenths(x) == (20 * x.num + x.den) \div (2 * x.den)

\* Math.round((raw / max) * 100)
roundedPercent(raw, max) == (200 * raw + max) \div (2 * max)

\* mutation: every level gets the first description
descriptionOfFirst(level) == LEVEL_DESCRIPTIONS[S1]

descriptionOf(level) ==
    IF level \in DOMAIN LEVEL_DESCRIPTIONS THEN LEVEL_DESCRIPTIONS[level]
    ELSE "undefined"

recommendationFor(level) ==
    CASE level = S1 -> "Recommendations: Focus on basic vocabulary building, simple sentence structures, and everyday expressions. Practice listening to slow, clear speech."
      [] level = S2 -> "Recommendations: Expand vocabulary for common situations, practice past and future tenses, and work on basic conversation skills."
      [] level = S3 -> "Recommendations: Study complex grammar structures, academic vocabulary, and practice expressing opinions clearly in writing."
      [] level = S4 -> "Recommendations: Refine advanced grammar usage, expand professional vocabulary, and practice nuanced expression in complex topics."
      [] level = S5 -> "Recommendations: Maintain proficiency through exposure to complex texts, academic writing, and professional communication contexts."
      [] OTHER -> "Continue practicing to improve your English proficiency."

\* the parts of the summary text that depend on the level and the scores
getDetailedFeedback(level, scores) ==
    [ overallLevel |-> level,
      grammarPercent |-> roundedPercent(scores.GrammarVocabulary, 20),
      readingWritingPercent |-> roundedPercent(scores.ReadingWriting, 24),
      listeningPercent |-> roundedPercent(scores.Listening, 12),
      recommendation |-> recommendationFor(level) ]

calculateSEMFLevel(rawScores) ==
    LET gvNorm == normalize(rawScores.GrammarVocabulary, 20)
        readingWritingNorm == normalize(rawScores.ReadingWriting, 24)
        listeningNorm == normalize(rawScores.Listening, 12)
        readingWritingResult == applyTieBreaker(readingWritingNorm, gvNorm)
        listeningResult == applyTieBreaker(listeningNorm, gvNorm)
        overallLevel == overallLevelOf(readingWritingResult.level,
                                       listeningResult.level)
        levelsPresent == {readingWritingResult.level, listeningResult.level,
                          overallLevel}
    IN  [ skills |->
            << [ skill |-> "ReadingWriting",
                 rawScore |-> rawScores.ReadingWriting,
                 normalizedScore |-> roundToTenths(readingWritingNorm),
                 level |-> readingWritingResult.level,
                 tieBreakerApplied |-> readingWritingResult.tieBreakerApplied ],
               [ skill |-> "Listening",
                 rawScore |-> rawScores.Listening,
                 normalizedScore |-> roundToTenths(listeningNorm),
                 level |-> listeningResult.level,
                 tieBreakerApplied |-> listeningResult.tieBreakerApplied ] >>,
          tieBreakerSkill |->
            [ skill |-> "GrammarVocabulary",
              rawScore |-> rawScores.GrammarVocabulary,
              normalizedScore |-> roundToTenths(gvNorm) ],
          overallLevel |-> overallLevel,
          descriptions |-> [lv \in levelsPresent |-> descriptionOf(lv)],
          summary |-> getDetailedFeedback(overallLevel, rawScores) ]

(***************************************************************************)
(* Answer texts the specifications draw from.                              *)
(***************************************************************************)
wrongLetter(q) == IF KeyLetters[q] = "A" THEN "B" ELSE "A"

\* Spec: a few texts per question, at least one earning the point
sampleLetterAnswers(q) ==
    { Undefined, <<>>, <<KeyLetters[q]>>,
      <<" ", lowerChar(KeyLetters[q]), "\n">>, <<wrongLetter(q)>> }

sampleOrderingAnswers(q) ==
    { Undefined, CORRECT_ANSWERS[q], toLowerCase(CORRECT_ANSWERS[q]),
      <<"\t">> \o CORRECT_ANSWERS[q] \o <<" ">> }

sampleTextAnswers(q) ==
    LET kw == TEXT_ANSWER_KEYWORDS[q]
    IN  { Undefined, <<>>,
          toUpperCase(kw[1]) \o <<" ">> \o kw[2] \o <<" ">> \o kw[3],
          kw[3] \o <<" ">> \o kw[4],
          kw[1] \o <<" ", "i", "s", " ", "g", "o", "o", "d", " ", "f", "o",
                     "r", " ", "a", "l", "l">> }

\* an essay of n words: first, then n - 1 times the word "a"
essayOf(first, n) ==
    IF n = 0 THEN <<>>
    ELSE first \o [k \in 1..(2 * (n - 1)) |-> IF k % 2 = 1 THEN " " ELSE "a"]

sampleEssayAnswers ==
    { Undefined, <<>>, <<" ", "\n">> }
    \cup { essayOf(ArgumentWords[3], n) : n \in {79, 80, 200, 201} }
    \cup { essayOf(<<"B", "e", "n", "e", "f", "i", "t">>, 80),
           essayOf(<<"w", "o", "r", "k">>, 80) }

\* SpecGrade: every text over a small alphabet, up to the bounds
RECURSIVE textsUpTo(_, _)
textsUpTo(alphabet, n) ==
    IF n = 0 THEN {<<>>}
    ELSE LET shorter == textsUpTo(alphabet, n - 1)
         IN  shorter \cup {Append(s, c) : s \in shorter, c \in alphabet}

letterAnswers(q) ==
    {Undefined} \cup
    textsUpTo({" ", "\t", KeyLetters[q], lowerChar(KeyLetters[q]),
               wrongLetter(q)}, MaxLen)

Separators == { <<",", " ">>, <<",">>, <<" ">>, <<",", " ", " ">> }

orderingAnswers ==
    {Undefined} \cup
    { before \o body \o after :
        before \in textsUpTo({" ", "\t"}, MaxPad),
        after \in textsUpTo({" ", "\t"}, MaxPad),
        body \in UNION {
            { <<f[1]>> \o sep \o <<f[2]>> \o sep \o <<f[3]>> \o sep \o <<f[4]>>,
              toLowerCase(<<f[1]>> \o sep \o <<f[2]>> \o sep \o <<f[3]>>
                          \o sep \o <<f[4]>>) } :
            f \in {g \in [1..4 -> {"A", "B", "C", "D"}] :
                        \A m, n \in 1..4 : m # n => g[m] # g[n]},
            sep \in Separators } }

\* s, filled with dots up to the length n
padTo(s, n) ==
    IF Len(s) >= n THEN s ELSE s \o [k \in 1..(n - Len(s)) |-> "."]

\* the words of the sequence ws, each followed by sep
RECURSIVE joinWords(_, _)
joinWords(ws, sep) ==
    IF ws = <<>> THEN <<>> ELSE Head(ws) \o sep \o joinWords(Tail(ws), sep)

\* free-text answers: up to three keywords of the question in table order,
\* in lower or upper case, separated by a blank or run together, filled up
\* to a length around 20
textAnswers(q) ==
    LET kw == TEXT_ANSWER_KEYWORDS[q]
        picks == { <<>> }
                 \cup { <<kw[a]>> : a \in 1..Len(kw) }
                 \cup { <<kw[a], kw[b]>> :
                          a \in 1..Len(kw), b \in 2..Len(kw) } 
                 \cup { <<kw[a], kw[a + 1], kw[Len(kw)]>> :
                          a \in 1..(Len(kw) - 2) }
    IN  { Undefined } \cup sampleTextAnswers(q) \cup
        { padTo(body, n) :
            body \in UNION { { joinWords(ws, sep),
                               toUpperCase(joinWords(ws, sep)) } :
                             ws \in picks, sep \in { <<" ">>, <<>> } },
            n \in {0} \cup ((20 - LengthSpan)..(20 + LengthSpan)) }

\* an essay of n words: first, then n - 1 times the word "a" after a run
\* of gap whitespace characters
spacedEssay(first, n, gap) ==
    IF n = 0 THEN <<>>
    ELSE first \o [k \in 1..((gap + 1) * (n - 1)) |->
                     IF k % (gap + 1) = 0 THEN "a"
                     ELSE IF k % 2 = 1 THEN " " ELSE "\n"]

essayAnswers ==
    sampleEssayAnswers \cup
    { before \o spacedEssay(first, n, gap) \o before :
        before \in { <<>>, <<" ", "\t">> },
        gap \in 1..2,
        first \in { ArgumentWords[k] : k \in 1..Len(ArgumentWords) }
                  \cup { <<"C", "h", "a", "l", "l", "e", "n", "g", "e", "s">>,
                         <<"w", "o", "r", "k">> },
        n \in (0..1) \cup ((80 - WordSpan)..(80 + WordSpan))
                      \cup ((200 - WordSpan)..(200 + WordSpan)) }

answerTexts(q) ==
    IF q \in 36..40 THEN orderingAnswers
    ELSE IF q \in 41..43 THEN textAnswers(q)
    ELSE IF q = 44 THEN essayAnswers
    ELSE letterAnswers(q)

(***************************************************************************)
(* The bodies of the grading loops of calculateActualScores, for the       *)
(* answer a of question i.                                                 *)
(***************************************************************************)
point(earned) == IF earned THEN 1 ELSE 0

grammarLoopBody(a) ==
    /\ grammarScore' = grammarScore + point(letterMatches(i, a))
    /\ UNCHANGED <<readingWritingScore, listeningScore>>

storyLoopBody(a) ==
    /\ readingWritingScore' = readingWritingScore + point(letterMatches(i, a))
    /\ UNCHANGED <<grammarScore, listeningScore>>

orderingLoopBody(a) ==
    /\ readingWritingScore' = readingWritingScore + point(orderingMatches(i, a))
    /\ UNCHANGED <<grammarScore, listeningScore>>

textLoopBody(a) ==
    /\ readingWritingScore' = readingWritingScore + point(textMatches(i, a))
    /\ UNCHANGED <<grammarScore, listeningScore>>

\* mutation: the essay point goes to the wrong counter
essayBodyMiscounted(a) ==
    /\ listeningScore' = listeningScore + point(essayMatches(a))
    /\ UNCHANGED <<grammarScore, readingWritingScore>>

essayBody(a) ==
    /\ readingWritingScore' = readingWritingScore + point(essayMatches(a))
    /\ UNCHANGED <<grammarScore, listeningScore>>

listeningLoopBody(a) ==
    /\ listeningScore' = listeningScore + point(letterMatches(i, a))
    /\ UNCHANGED <<grammarScore, readingWritingScore>>

rawScores ==
    [ GrammarVocabulary |-> grammarScore,
      ReadingWriting |-> readingWritingScore,
      Listening |-> listeningScore ]

(***************************************************************************)
(* SentenceOrderingQuestion (src/src/components/TestResults.tsx).          *)
(* A sentence is its id and its letter (the text takes no part in the      *)
(* handlers); ids, letters and answers are texts.  null is Null for a      *)
(* text and nullNumber for a number.                                       *)
(***************************************************************************)
componentVars ==
    <<sentences, selectedAnswer, orderedSentences, draggedItem, touchStartY,
      isDragging, answerString, clientY>>

Null == <<"null">>

\* null of a number | null state; every clientY of the model is >= 0
nullNumber == -1

\* the letters extractSentences accepts, /\(([A-D])\)/
SentenceLetters == <<"A", "B", "C", "D">>

\* extractSentences on a question text that lists n sentences (A), (B), ...
extractedSentences(n) ==
    [ k \in 1..n |->
        [id |-> <<SentenceLetters[k]>>, letter |-> <<SentenceLetters[k]>>] ]

\* Array.prototype.join
RECURSIVE join(_, _)
join(texts, sep) ==
    IF texts = <<>> THEN <<>>
    ELSE IF Len(texts) = 1 THEN texts[1]
    ELSE texts[1] \o sep \o join(Tail(texts), sep)

startsWith(s, sep) == Len(s) >= Len(sep) /\ SubSeq(s, 1, Len(sep)) = sep

\* String.prototype.split with a non-empty separator
RECURSIVE splitFrom(_, _, _)
splitFrom(s, sep, piece) ==
    IF s = <<>> THEN <<piece>>
    ELSE IF startsWith(s, sep)
    THEN <<piece>> \o splitFrom(SubSeq(s, Len(sep) + 1, Len(s)), sep, <<>>)
    ELSE splitFrom(Tail(s), sep, Append(piece, Head(s)))

split(s, sep) == splitFrom(s, sep, <<>>)

\* mutation: the stored answer is split at the commas alone
answerOrderByComma(selected) == split(selected, <<",">>)

\* selectedAnswer.split(', ')
answerOrder(selected) == split(selected, <<",", " ">>)

\* index of the first sentence with the letter, zero-based, -1 if none
findIndexByLetter(all, letter) ==
    LET hits == { k \in DOMAIN all : all[k].letter = letter }
    IN  IF hits = {} THEN -1
        ELSE (CHOOSE k \in hits : \A j \in hits : k <= j) - 1

\* answerOrder.map(letter => sentences.find(...)).filter(Boolean)
reorderedSentences(all, selected) ==
    LET found == SelectSeq(answerOrder(selected),
                           LAMBDA letter : findIndexByLetter(all, letter) >= 0)
    IN  [ k \in 1..Len(found) |-> all[findIndexByLetter(all, found[k]) + 1] ]

getInitialOrder(all, selected) ==
    IF /\ selected # Undefined
       /\ selected # <<>>
       /\ includes(selected, <<",">>)
       /\ Len(reorderedSentences(all, selected)) = Len(all)
    THEN reorderedSentences(all, selected)
    ELSE all

\* mutation: the letters are joined by commas alone
updateAnswerUnspaced(newOrder) ==
    join([k \in DOMAIN newOrder |-> newOrder[k].letter], <<",">>)

\* the answer updateAnswer passes to onAnswerChange
updateAnswer(newOrder) ==
    join([k \in DOMAIN newOrder |-> newOrder[k].letter], <<",", " ">>)

\* orderedSentences.findIndex(s => s.id === draggedItem), zero-based
draggedIndexOf(order, id) ==
    LET hits == { k \in DOMAIN order : order[k].id = id }
    IN  IF hits = {} THEN -1
        ELSE (CHOOSE k \in hits : \A j \in hits : k <= j) - 1

\* [newOrder[index], newOrder[targetIndex]] =
\*     [newOrder[targetIndex], newOrder[index]], zero-based
swapped(order, index, targetIndex) ==
    [ order EXCEPT ![index + 1] = order[targetIndex + 1],
                   ![targetIndex + 1] = order[index + 1] ]

\* newOrder.splice(draggedIndex, 1); newOrder.splice(targetIndex, 0, s)
spliced(order, draggedIndex, targetIndex) ==
    LET removed == SubSeq(order, 1, draggedIndex)
                   \o SubSeq(order, draggedIndex + 2, Len(order))
        at == IF targetIndex > Len(removed) THEN Len(removed) ELSE targetIndex
    IN  SubSeq(removed, 1, at) \o <<order[draggedIndex + 1]>>
        \o SubSeq(removed, at + 1, Len(removed))

itemHeight == 80

moveThreshold == itemHeight \div 2

\* Math.abs
abs(n) == IF n < 0 THEN 0 - n ELSE n

\* the state of the component in the specifications of the scoring engine
componentIdle ==
    /\ sentences = <<>>
    /\ selectedAnswer = Undefined
    /\ orderedSentences = <<>>
    /\ draggedItem = Null
    /\ touchStartY = nullNumber
    /\ isDragging = FALSE
    /\ answerString = Undefined
    /\ clientY = nullNumber

(***************************************************************************)
(* Spec: one call of calculateSEMFLevel.                                   *)
(***************************************************************************)
NoResult == [skills |-> <<>>]

\* the AnswerSet {}; the variable answers holds an AnswerSet in SpecCall only
NoAnswers == <<>>

NoTieBreak == [level |-> Undefined, tieBreakerApplied |-> FALSE]

Zero == [num |-> 0, den |-> 1]

levelVarsIdle ==
    /\ normalizedScore = Zero
    /\ grammarVocabNorm = Zero
    /\ baseLevel = Undefined
    /\ tieBreak = NoTieBreak

Init ==
    /\ pc = "grading"
    /\ i = 1
    /\ grammarScore = 0
    /\ readingWritingScore = 0
    /\ listeningScore = 0
    /\ result = NoResult
    /\ userAnswer = Undefined
    /\ answers = NoAnswers
    /\ componentIdle
    /\ levelVarsIdle

nextQuestion ==
    /\ i' = i + 1
    /\ UNCHANGED componentVars
    /\ UNCHANGED <<pc, result, userAnswer, answers, normalizedScore, grammarVocabNorm,
                   baseLevel, tieBreak>>

ScoreGrammar ==
    /\ pc = "grading" /\ i \in 1..20
    /\ \E a \in sampleLetterAnswers(i) : grammarLoopBody(a)
    /\ nextQuestion

ScoreStory ==
    /\ pc = "grading" /\ i \in 21..35
    /\ \E a \in sampleLetterAnswers(i) : storyLoopBody(a)
    /\ nextQuestion

ScoreOrdering ==
    /\ pc = "grading" /\ i \in 36..40
    /\ \E a \in sampleOrderingAnswers(i) : orderingLoopBody(a)
    /\ nextQuestion

ScoreText ==
    /\ pc = "grading" /\ i \in 41..43
    /\ \E a \in sampleTextAnswers(i) : textLoopBody(a)
    /\ nextQuestion

ScoreEssay ==
    /\ pc = "grading" /\ i = 44
    /\ \E a \in sampleEssayAnswers : essayBody(a)
    /\ nextQuestion

ScoreListening ==
    /\ pc = "grading" /\ i \in 45..56
    /\ \E a \in sampleLetterAnswers(i) : listeningLoopBody(a)
    /\ nextQuestion

ComputeLevel ==
    /\ pc = "grading" /\ i = 57
    /\ result' = calculateSEMFLevel(rawScores)
    /\ pc' = "done"
    /\ UNCHANGED componentVars
    /\ UNCHANGED <<i, grammarScore, readingWritingScore, listeningScore,
                   userAnswer, answers, normalizedScore, grammarVocabNorm, baseLevel,
                   tieBreak>>

Next ==
    \/ ScoreGrammar
    \/ ScoreStory
    \/ ScoreOrdering
    \/ ScoreText
    \/ ScoreEssay
    \/ ScoreListening
    \/ ComputeLevel

Spec == Init /\ [][Next]_vars

(***************************************************************************)
(* SpecLevel: mapToLevel and applyTieBreaker on a grid of scores.          *)
(***************************************************************************)
gridScores ==
    { [num |-> k, den |-> GridDen] :
        k \in (0 - Margin * GridDen)..((50 + Margin) * GridDen) }

grammarNorms == { normalize(g, 20) : g \in 0..20 }

InitLevel ==
    /\ pc = "level-input"
    /\ normalizedScore \in gridScores
    /\ grammarVocabNorm \in grammarNorms
    /\ baseLevel = Undefined
    /\ tieBreak = NoTieBreak
    /\ i = 0
    /\ grammarScore = 0
    /\ readingWritingScore = 0
    /\ listeningScore = 0
    /\ result = NoResult
    /\ userAnswer = Undefined
    /\ answers = NoAnswers
    /\ componentIdle

Classify ==
    /\ pc = "level-input"
    /\ baseLevel' = mapToLevel(normalizedScore)
    /\ tieBreak' = applyTieBreaker(normalizedScore, grammarVocabNorm)
    /\ pc' = "level-output"
    /\ UNCHANGED componentVars
    /\ UNCHANGED <<i, grammarScore, readingWritingScore, listeningScore,
                   result, userAnswer, answers, normalizedScore, grammarVocabNorm>>

NextLevel == Classify

SpecLevel == InitLevel /\ [][NextLevel]_vars

(***************************************************************************)
(* SpecGrade: one loop iteration on one question and one answer text.      *)
(***************************************************************************)
InitGrade ==
    /\ pc = "iteration"
    /\ i \in 1..56
    /\ userAnswer \in answerTexts(i)
    /\ answers = NoAnswers
    /\ componentIdle
    /\ grammarScore = 0
    /\ readingWritingScore = 0
    /\ listeningScore = 0
    /\ result = NoResult
    /\ levelVarsIdle

iterated ==
    /\ pc' = "iterated"
    /\ UNCHANGED componentVars
    /\ UNCHANGED <<i, result, userAnswer, answers, normalizedScore, grammarVocabNorm,
                   baseLevel, tieBreak>>

IterateGrammar ==
    pc = "iteration" /\ i \in 1..20 /\ grammarLoopBody(userAnswer) /\ iterated

IterateStory ==
    pc = "iteration" /\ i \in 21..35 /\ storyLoopBody(userAnswer) /\ iterated

IterateOrdering ==
    pc = "iteration" /\ i \in 36..40 /\ orderingLoopBody(userAnswer) /\ iterated

IterateText ==
    pc = "iteration" /\ i \in 41..43 /\ textLoopBody(userAnswer) /\ iterated

IterateEssay ==
    pc = "iteration" /\ i = 44 /\ essayBody(userAnswer) /\ iterated

IterateListening ==
    pc = "iteration" /\ i \in 45..56 /\ listeningLoopBody(userAnswer) /\ iterated

NextGrade ==
    \/ IterateGrammar
    \/ IterateStory
    \/ IterateOrdering
    \/ IterateText
    \/ IterateEssay
    \/ IterateListening

SpecGrade == InitGrade /\ [][NextGrade]_vars

(***************************************************************************)
(* SpecCall: calculateSEMFLevel on a whole AnswerSet.                      *)
(***************************************************************************)
\* answers[q]
answerAt(ans, q) == IF q \in DOMAIN ans THEN ans[q] ELSE Undefined

\* mutation: the essay point goes to the Listening score
calculateActualScoresEssayMiscounted(ans) ==
    [ GrammarVocabulary |->
        Cardinality({ q \in 1..20 : letterMatches(q, answerAt(ans, q)) }),
      ReadingWriting |->
        Cardinality({ q \in 21..35 : letterMatches(q, answerAt(ans, q)) })
        + Cardinality({ q \in 36..40 : orderingMatches(q, answerAt(ans, q)) })
        + Cardinality({ q \in 41..43 : textMatches(q, answerAt(ans, q)) }),
      Listening |->
        Cardinality({ q \in 45..56 : letterMatches(q, answerAt(ans, q)) })
        + point(essayMatches(answerAt(ans, 44))) ]

calculateActualScores(ans) ==
    [ GrammarVocabulary |->
        Cardinality({ q \in 1..20 : letterMatches(q, answerAt(ans, q)) }),
      ReadingWriting |->
        Cardinality({ q \in 21..35 : letterMatches(q, answerAt(ans, q)) })
        + Cardinality({ q \in 36..40 : orderingMatches(q, answerAt(ans, q)) })
        + Cardinality({ q \in 41..43 : textMatches(q, answerAt(ans, q)) })
        + point(essayMatches(answerAt(ans, 44))),
      Listening |->
        Cardinality({ q \in 45..56 : letterMatches(q, answerAt(ans, q)) }) ]

\* an answer that earns the point of question q, written plainly or sloppily
goodAnswer(q, sloppy) ==
    IF q \in 36..40
    THEN IF sloppy THEN <<" ">> \o CORRECT_ANSWERS[q] \o <<"\n">>
         ELSE CORRECT_ANSWERS[q]
    ELSE IF q \in 41..43
    THEN LET kw == TEXT_ANSWER_KEYWORDS[q]
             text == kw[1] \o <<" ">> \o kw[2] \o <<" ">> \o kw[Len(kw)]
         IN  IF sloppy THEN toUpperCase(text) ELSE text
    ELSE IF q = 44
    THEN IF sloppy THEN spacedEssay(<<"C", "h", "a", "l", "l", "e", "n", "g", "e">>, 81, 2)
         ELSE essayOf(ArgumentWords[3], 80)
    ELSE IF sloppy THEN <<" ", lowerChar(KeyLetters[q]), "\n">>
         ELSE <<KeyLetters[q]>>

\* an answer that does not earn the point of question q
badAnswer(q, kind) ==
    IF kind = "absent" THEN Undefined
    ELSE IF kind = "empty" THEN <<>>
    ELSE IF q \in 36..40 THEN toLowerCase(CORRECT_ANSWERS[q])
    ELSE IF q \in 41..43 THEN TEXT_ANSWER_KEYWORDS[q][1]
    ELSE IF q = 44 THEN essayOf(ArgumentWords[3], 79)
    ELSE <<wrongLetter(q)>>

\* the AnswerSet with good answers to the first ng, nrw and nl questions of
\* the three sections and bad answers of one kind to the others
answerSet(ng, nrw, nl, sloppy, kind) ==
    LET answer(q) ==
            IF \/ q \in 1..ng
               \/ q \in 21..(20 + nrw)
               \/ q \in 45..(44 + nl)
            THEN goodAnswer(q, sloppy) ELSE badAnswer(q, kind)
    IN  [ q \in { k \in 1..56 : answer(k) # Undefined } |-> answer(q) ]

answerSets ==
    { answerSet(ng, nrw, nl, sloppy, kind) :
        ng \in {0, 13, 14, 20}, nrw \in 0..24, nl \in 0..12,
        sloppy \in BOOLEAN, kind \in {"absent", "empty", "wrong"} }

\* const totalPossible = 56
totalPossible == 56

\* Math.round((Object.keys(answers).length / totalPossible) * 100): the
\* Test Completion figure of the summary.  Object.keys counts every
\* question id that has an entry, whatever its text.
testCompletion(ans) ==
    (200 * Cardinality(DOMAIN ans) + totalPossible) \div (2 * totalPossible)

InitCall ==
    /\ pc = "call"
    /\ answers \in answerSets
    /\ componentIdle
    /\ i = 0
    /\ grammarScore = 0
    /\ readingWritingScore = 0
    /\ listeningScore = 0
    /\ result = NoResult
    /\ userAnswer = Undefined
    /\ levelVarsIdle

Call ==
    /\ pc = "call"
    /\ LET scores == calculateActualScores(answers)
       IN  /\ grammarScore' = scores.GrammarVocabulary
           /\ readingWritingScore' = scores.ReadingWriting
           /\ listeningScore' = scores.Listening
           /\ result' =
                [ calculateSEMFLevel(scores) EXCEPT
                    !.summary = @ @@ [testCompletion |-> testCompletion(answers)] ]
    /\ pc' = "returned"
    /\ UNCHANGED componentVars
    /\ UNCHANGED <<i, userAnswer, answers, normalizedScore, grammarVocabNorm,
                   baseLevel, tieBreak>>

NextCall == Call

SpecCall == InitCall /\ [][NextCall]_vars

(***************************************************************************)
(* SpecOrder: SentenceOrderingQuestion.  One step per event handler; pc    *)
(* names the handler that ran last.  A handler runs on the state of the    *)
(* last render and its state updates are applied together when it ends.    *)
(* handleDragOver and handleTouchMove write no state and are left out.     *)
(***************************************************************************)
engineVars ==
    <<i, grammarScore, readingWritingScore, listeningScore, result,
      userAnswer, normalizedScore, grammarVocabNorm, baseLevel, tieBreak,
      answers>>

\* every order of the sentences
permutationsOf(all) ==
    { [k \in DOMAIN all |-> all[f[k]]] :
        f \in { g \in [DOMAIN all -> DOMAIN all] :
                  \A a, b \in DOMAIN all : g[a] = g[b] => a = b } }

\* the selectedAnswer prop: absent, empty, an answer the component passed
\* to onAnswerChange earlier, or a text that does not resolve to every
\* sentence (a single letter, letters joined by commas alone, a list that
\* is one letter short, a list with a letter no sentence has, lower case)
selectedAnswers(all) ==
    {Undefined, <<>>}
    \cup { updateAnswer(p) : p \in permutationsOf(all) }
    \cup { all[1].letter,
           join([k \in DOMAIN all |-> all[k].letter], <<",">>),
           updateAnswer(SubSeq(all, 1, Len(all) - 1)),
           updateAnswer(SubSeq(all, 1, Len(all) - 1)) \o <<",", " ", "E">>,
           toLowerCase(updateAnswer(all)) }

\* touch.clientY
clientYs == {0, 40, 80, 81}

InitOrder ==
    /\ pc = "props"
    /\ \E n \in 1..Len(SentenceLetters) :
          /\ sentences = extractedSentences(n)
          /\ selectedAnswer \in selectedAnswers(sentences)
    /\ orderedSentences = <<>>
    /\ draggedItem = Null
    /\ touchStartY = nullNumber
    /\ isDragging = FALSE
    /\ answerString = Undefined
    /\ clientY = nullNumber
    /\ i = 0
    /\ grammarScore = 0
    /\ readingWritingScore = 0
    /\ listeningScore = 0
    /\ result = NoResult
    /\ userAnswer = Undefined
    /\ answers = NoAnswers
    /\ levelVarsIdle

\* the useState initializers
Mount ==
    /\ pc = "props"
    /\ orderedSentences' = getInitialOrder(sentences, selectedAnswer)
    /\ draggedItem' = Null
    /\ touchStartY' = nullNumber
    /\ isDragging' = FALSE
    /\ pc' = "mounted"
    /\ UNCHANGED <<sentences, selectedAnswer, answerString, clientY>>
    /\ UNCHANGED engineVars

moveSentence(index, direction) ==
    LET targetIndex == IF direction = "up" THEN index - 1 ELSE index + 1
    IN  IF targetIndex >= 0 /\ targetIndex < Len(orderedSentences)
        THEN LET newOrder == swapped(orderedSentences, index, targetIndex)
             IN  /\ orderedSentences' = newOrder
                 /\ answerString' = updateAnswer(newOrder)
        ELSE UNCHANGED <<orderedSentences, answerString>>

handleDragStart(sentenceId) ==
    /\ draggedItem' = sentenceId
    /\ isDragging' = TRUE
    /\ UNCHANGED <<orderedSentences, answerString, touchStartY>>

handleDrop(targetIndex) ==
    IF draggedItem = Null
    THEN UNCHANGED <<orderedSentences, answerString, draggedItem,
                     touchStartY, isDragging>>
    ELSE LET draggedIndex == draggedIndexOf(orderedSentences, draggedItem)
         IN  IF draggedIndex = -1
             THEN UNCHANGED <<orderedSentences, answerString, draggedItem,
                              touchStartY, isDragging>>
             ELSE LET newOrder ==
                          spliced(orderedSentences, draggedIndex, targetIndex)
                  IN  /\ orderedSentences' = newOrder
                      /\ answerString' = updateAnswer(newOrder)
                      /\ draggedItem' = Null
                      /\ isDragging' = FALSE
                      /\ UNCHANGED touchStartY

handleDragEnd ==
    /\ draggedItem' = Null
    /\ isDragging' = FALSE
    /\ UNCHANGED <<orderedSentences, answerString, touchStartY>>

handleTouchStart(sentenceId, y) ==
    /\ touchStartY' = y
    /\ draggedItem' = sentenceId
    /\ isDragging' = TRUE
    /\ UNCHANGED <<orderedSentences, answerString>>

\* !draggedItem || !touchStartY: null and 0 are both falsy
handleTouchEnd(y) ==
    IF draggedItem = Null \/ touchStartY = nullNumber \/ touchStartY = 0
    THEN UNCHANGED <<orderedSentences, answerString, draggedItem,
                     touchStartY, isDragging>>
    ELSE LET deltaY == y - touchStartY
             draggedIndex == draggedIndexOf(orderedSentences, draggedItem)
         IN  /\ IF abs(deltaY) > moveThreshold
                THEN moveSentence(draggedIndex,
                                  IF deltaY < 0 THEN "up" ELSE "down")
                ELSE UNCHANGED <<orderedSentences, answerString>>
             /\ draggedItem' = Null
             /\ touchStartY' = nullNumber
             /\ isDragging' = FALSE

handled(name) ==
    /\ pc' = name
    /\ UNCHANGED <<sentences, selectedAnswer>>
    /\ UNCHANGED engineVars

\* a click on an arrow button that is not disabled
ClickArrow ==
    /\ pc # "props"
    /\ \E index \in 0..(Len(orderedSentences) - 1),
          direction \in {"up", "down"} :
          /\ direction = "up" => index # 0
          /\ direction = "down" => index # Len(orderedSentences) - 1
          /\ moveSentence(index, direction)
    /\ UNCHANGED <<draggedItem, touchStartY, isDragging, clientY>>
    /\ handled("moveSentence")

DragStart ==
    /\ pc # "props"
    /\ \E k \in DOMAIN orderedSentences :
          handleDragStart(orderedSentences[k].id)
    /\ UNCHANGED clientY
    /\ handled("handleDragStart")

Drop ==
    /\ pc # "props"
    /\ \E index \in 0..(Len(orderedSentences) - 1) : handleDrop(index)
    /\ UNCHANGED clientY
    /\ handled("handleDrop")

DragEnd ==
    /\ pc # "props"
    /\ handleDragEnd
    /\ UNCHANGED clientY
    /\ handled("handleDragEnd")

TouchStart ==
    /\ pc # "props"
    /\ \E k \in DOMAIN orderedSentences, y \in clientYs :
          /\ handleTouchStart(orderedSentences[k].id, y)
          /\ clientY' = y
    /\ handled("handleTouchStart")

TouchEnd ==
    /\ pc # "props"
    /\ \E y \in clientYs :
          /\ handleTouchEnd(y)
          /\ clientY' = y
    /\ handled("handleTouchEnd")

NextOrder ==
    \/ Mount
    \/ ClickArrow
    \/ DragStart
    \/ Drop
    \/ DragEnd
    \/ TouchStart
    \/ TouchEnd

SpecOrder == InitOrder /\ [][NextOrder]_vars

(***************************************************************************)
(* Properties.                                                             *)
(***************************************************************************)

\* C1: the overall level of the report is S<min(n1, n2)> for the numbers
\* n1, n2 of the ReadingWriting and Listening levels the report carries, so
\* it is never above either of them.
C1_OverallIsMinimum ==
    pc = "done" =>
        \E n1, n2 \in 1..5 :
            /\ result.skills[1].level = <<"S", Digits[n1 + 1]>>
            /\ result.skills[2].level = <<"S", Digits[n2 + 1]>>
            /\ result.overallLevel =
                 <<"S", Digits[(IF n1 < n2 THEN n1 ELSE n2) + 1]>>

C1_Witness ==
    /\ pc = "done"
    /\ result.skills[1].level = S4
    /\ result.skills[2].level = S2
    /\ result.overallLevel = S2

\* C2: every normalized score the engine produces for ReadingWriting and
\* Listening lies in exactly one band of LEVEL_CUTOFFS (so mapToLevel never
\* takes its fallback).
C2_ExactlyOneBand ==
    pc = "done" =>
        \A s \in { <<readingWritingScore, 24>>, <<listeningScore, 12>> } :
            Cardinality({ k \in 1..5 :
                /\ 50 * s[1] >= LEVEL_CUTOFFS[k].min * s[2]
                /\ 50 * s[1] <= LEVEL_CUTOFFS[k].max * s[2] }) = 1

\* C3: whenever the report says that the tie-break was applied to a skill,
\* the skill's level is the band immediately above or immediately below the
\* base level mapToLevel gives for the skill's normalized score.
C3_MovesOneBand ==
    pc = "done" =>
        LET ord(level) == CHOOSE k \in 1..5 : LEVEL_CUTOFFS[k].level = level
            base(k) == IF k = 1 THEN mapToLevel(normalize(readingWritingScore, 24))
                       ELSE mapToLevel(normalize(listeningScore, 12))
        IN  \A k \in 1..2 :
                result.skills[k].tieBreakerApplied =>
                    \/ ord(result.skills[k].level) = ord(base(k)) + 1
                    \/ ord(result.skills[k].level) = ord(base(k)) - 1

\* C4: upward tie-break.  When a skill's normalized score s satisfies
\* band.min - 2 <= s < band.min for some band and the grammar score
\* normalizes to at least 35, the skill's level is that band and the
\* tie-break is reported as applied.
C4_UpwardTieBreak ==
    pc = "done" =>
        \A k \in 1..2, b \in 1..5 :
            LET raw == result.skills[k].rawScore
                max == IF k = 1 THEN 24 ELSE 12
            IN  ( /\ 50 * raw >= (LEVEL_CUTOFFS[b].min - 2) * max
                  /\ 50 * raw < LEVEL_CUTOFFS[b].min * max
                  /\ 50 * grammarScore >= 35 * 20 )
                => /\ result.skills[k].level = LEVEL_CUTOFFS[b].level
                   /\ result.skills[k].tieBreakerApplied

C4_Witness ==
    /\ pc = "done"
    /\ readingWritingScore = 7
    /\ grammarScore = 14
    /\ mapToLevel(normalize(readingWritingScore, 24)) = S1
    /\ result.skills[1].level = S2
    /\ result.skills[1].tieBreakerApplied

\* C5: downward tie-break.  When a skill's normalized score s satisfies
\* band.max < s <= band.max + 2 for a band other than S1 and the grammar
\* score normalizes to less than 35, the skill's level is the band that
\* precedes that band in the table and the tie-break is reported as applied.
C5_DownwardTieBreak ==
    pc = "done" =>
        \A k \in 1..2, b \in 2..5 :
            LET raw == result.skills[k].rawScore
                max == IF k = 1 THEN 24 ELSE 12
            IN  ( /\ 50 * raw > LEVEL_CUTOFFS[b].max * max
                  /\ 50 * raw <= (LEVEL_CUTOFFS[b].max + 2) * max
                  /\ 50 * grammarScore < 35 * 20 )
                => /\ result.skills[k].level = LEVEL_CUTOFFS[b - 1].level
                   /\ result.skills[k].tieBreakerApplied

C5_Witness ==
    /\ pc = "done"
    /\ readingWritingScore = 21
    /\ grammarScore = 13
    /\ result.skills[1].level = S3
    /\ result.skills[1].tieBreakerApplied

\* C6: every call returns a report whose two skill levels and overall level
\* are among S1..S5, and whose summary carries one of the five
\* level-specific recommendations, never the generic message.
C6_ReportIsValid ==
    pc = "done" =>
        /\ result.skills[1].level \in {S1, S2, S3, S4, S5}
        /\ result.skills[2].level \in {S1, S2, S3, S4, S5}
        /\ result.overallLevel \in {S1, S2, S3, S4, S5}
        /\ result.summary.overallLevel = result.overallLevel
        /\ result.summary.recommendation #
             "Continue practicing to improve your English proficiency."
        /\ DOMAIN result.descriptions \subseteq {S1, S2, S3, S4, S5}

C6_Witness ==
    /\ pc = "done"
    /\ readingWritingScore = 8
    /\ listeningScore = 4
    /\ grammarScore = 0
    /\ result.overallLevel = S2

\* C7: the three raw scores are integers with 0 <= GrammarVocabulary <= 20,
\* 0 <= ReadingWriting <= 24 and 0 <= Listening <= 12, and grading a
\* question adds at most one point, and only to the score of the skill that
\* owns the question (1-20, 21-44, 45-56).
C7_RawScoreBounds ==
    /\ [](/\ grammarScore \in 0..20
          /\ readingWritingScore \in 0..24
          /\ listeningScore \in 0..12
          /\ pc = "done" =>
                /\ result.tieBreakerSkill.rawScore = grammarScore
                /\ result.skills[1].rawScore = readingWritingScore
                /\ result.skills[2].rawScore = listeningScore)
    /\ [][i' = i + 1 =>
            /\ grammarScore' - grammarScore \in
                 (IF i \in 1..20 THEN {0, 1} ELSE {0})
            /\ readingWritingScore' - readingWritingScore \in
                 (IF i \in 21..44 THEN {0, 1} ELSE {0})
            /\ listeningScore' - listeningScore \in
                 (IF i \in 45..56 THEN {0, 1} ELSE {0})]_vars

C7_Witness ==
    /\ pc = "done"
    /\ result.tieBreakerSkill.rawScore = 20
    /\ result.skills[1].rawScore = 24
    /\ result.skills[2].rawScore = 12

\* C8: mapToLevel maps 0 and 15 to S1, 16 and 25 to S2, 26 and 33 to S3,
\* 34 and 42 to S4, 43 and 50 to S5; a score inside a band's inclusive
\* bounds maps to that band.
C8_BoundaryLevels ==
    pc = "level-output" =>
        /\ \A e \in { <<0, S1>>, <<15, S1>>, <<16, S2>>, <<25, S2>>,
                      <<26, S3>>, <<33, S3>>, <<34, S4>>, <<42, S4>>,
                      <<43, S5>>, <<50, S5>> } :
               normalizedScore.num = e[1] * normalizedScore.den
                   => baseLevel = e[2]
        /\ \A b \in 1..5 :
               ( /\ normalizedScore.num >= LEVEL_CUTOFFS[b].min * normalizedScore.den
                 /\ normalizedScore.num <= LEVEL_CUTOFFS[b].max * normalizedScore.den )
               => baseLevel = LEVEL_CUTOFFS[b].level

C8_Witness ==
    /\ pc = "level-output"
    /\ normalizedScore.num = 43 * normalizedScore.den
    /\ baseLevel = S5

\* C9: a single-letter question (1-20, 21-35, 45-56) earns its point if and
\* only if an answer is present and consists of the key's letter, in either
\* case, with nothing but whitespace around it; an absent answer earns
\* nothing.
C9_SingleLetterGrading ==
    (pc = "iterated" /\ i \in (1..35) \cup (45..56)) =>
        LET earned == IF i \in 1..20 THEN grammarScore
                      ELSE IF i \in 21..35 THEN readingWritingScore
                      ELSE listeningScore
            a == userAnswer
        IN  /\ grammarScore + readingWritingScore + listeningScore = earned
            /\ earned = 1 <=>
                 /\ a # Undefined
                 /\ \E p \in 1..Len(a) :
                        /\ a[p] \in {KeyLetters[i], lowerChar(KeyLetters[i])}
                        /\ \A j \in 1..Len(a) : j # p => a[j] \in Whitespace
            /\ earned \in {0, 1}

C9_Witness ==
    /\ pc = "iterated"
    /\ i = 45
    /\ userAnswer = <<" ", "b">>
    /\ listeningScore = 1

\* C10: an ordered-list question (36-40) earns its point if and only if the
\* answer is the key's comma-and-space sequence with nothing but whitespace
\* around it; lower case or other separators do not score.
C10_OrderedListGrading ==
    (pc = "iterated" /\ i \in 36..40) =>
        LET a == userAnswer
            key == OrderingKeys[i - 35]
        IN  /\ grammarScore = 0 /\ listeningScore = 0
            /\ readingWritingScore \in {0, 1}
            /\ readingWritingScore = 1 <=>
                 /\ a # Undefined
                 /\ \E n \in 0..(Len(a) - Len(key)) :
                        /\ SubSeq(a, n + 1, n + Len(key)) = key
                        /\ \A j \in 1..n : a[j] \in Whitespace
                        /\ \A j \in (n + Len(key) + 1)..Len(a) :
                               a[j] \in Whitespace
            /\ (i = 36 /\ a \in { <<"b", ",", " ", "c", ",", " ", "d", ",", " ", "a">>,
                                  <<"B", ",", "C", ",", "D", ",", "A">> })
                   => readingWritingScore = 0

C10_Witness ==
    /\ pc = "iterated"
    /\ i = 36
    /\ userAnswer = <<"B", ",", " ", "C", ",", " ", "D", ",", " ", "A">>
    /\ readingWritingScore = 1

\* C11: a free-text question (41-43) earns its point if and only if at
\* least two distinct keywords of its keyword set occur, in any case, as
\* substrings of the answer and the answer is at least 20 characters long; an
\* absent answer is graded as the empty text and earns nothing.
C11_FreeTextGrading ==
    (pc = "iterated" /\ i \in 41..43) =>
        LET a == IF userAnswer = Undefined THEN <<>> ELSE userAnswer
            kw == TEXT_ANSWER_KEYWORDS[i]
            occurs(w) ==
                \E n \in 0..(Len(a) - Len(w)) :
                    \A j \in 1..Len(w) : lowerChar(a[n + j]) = w[j]
            hits == { w \in { kw[k] : k \in 1..Len(kw) } : occurs(w) }
        IN  /\ grammarScore = 0 /\ listeningScore = 0
            /\ readingWritingScore \in {0, 1}
            /\ readingWritingScore = 1 <=>
                 (Cardinality(hits) >= 2 /\ Len(a) >= 20)
            /\ userAnswer = Undefined => readingWritingScore = 0

C11_Witness ==
    /\ pc = "iterated"
    /\ i = 41
    /\ Len(userAnswer) = 20
    /\ userAnswer # toLowerCase(userAnswer)
    /\ readingWritingScore = 1

\* C12: the essay (question 44) earns its point if and only if the number of
\* whitespace-separated words of the answer is between 80 and 200 inclusive
\* and the answer contains, in any case, one of advantage, disadvantage,
\* benefit, challenge; an absent, empty or whitespace-only answer has no
\* words and earns nothing.
C12_EssayGrading ==
    (pc = "iterated" /\ i = 44) =>
        LET a == IF userAnswer = Undefined THEN <<>> ELSE userAnswer
            words == Cardinality({ k \in 1..Len(a) :
                        /\ a[k] \notin Whitespace
                        /\ (k = 1 \/ a[k - 1] \in Whitespace) })
            occurs(w) ==
                \E n \in 0..(Len(a) - Len(w)) :
                    \A j \in 1..Len(w) : lowerChar(a[n + j]) = w[j]
        IN  /\ grammarScore = 0 /\ listeningScore = 0
            /\ readingWritingScore \in {0, 1}
            /\ readingWritingScore = 1 <=>
                 /\ words >= 80 /\ words <= 200
                 /\ \E k \in 1..Len(ArgumentWords) : occurs(ArgumentWords[k])
            /\ (words = 0 \/ words = 79 \/ words = 201)
                   => readingWritingScore = 0

C12_Witness ==
    /\ pc = "iterated"
    /\ i = 44
    /\ userAnswer # Undefined
    /\ Len(userAnswer) = 9 + 3 * 199 + 4
    /\ readingWritingScore = 1

\* C13: for each skill with maximum m (20, 24, 12) and raw score r, the
\* normalized score is (r / m) * 50; it lies in [0, 50], is 0 for r = 0 and
\* 50 for r = m, and does not decrease when r grows by one.  The score the
\* report shows is that value rounded to one decimal.
C13_Normalization ==
    pc = "done" =>
        \A s \in { <<grammarScore, 20, result.tieBreakerSkill.normalizedScore>>,
                   <<readingWritingScore, 24, result.skills[1].normalizedScore>>,
                   <<listeningScore, 12, result.skills[2].normalizedScore>> } :
            LET r == s[1]
                m == s[2]
                n == normalize(r, m)
                up == normalize(r + 1, m)
            IN  /\ n.den > 0
                /\ n.num * m = 50 * r * n.den
                /\ n.num >= 0 /\ n.num <= 50 * n.den
                /\ r = 0 => n.num = 0
                /\ r = m => n.num = 50 * n.den
                /\ r < m => (up.num * n.den >= n.num * up.den
                             /\ up.num <= 50 * up.den)
                /\ s[3] \in 0..500
                /\ 2 * s[3] * n.den - 20 * n.num \in (0 - n.den)..n.den

C13_Witness ==
    /\ pc = "done"
    /\ grammarScore = 20
    /\ readingWritingScore = 7
    /\ listeningScore = 0
    /\ result.tieBreakerSkill.normalizedScore = 500
    /\ result.skills[1].normalizedScore = 146
    /\ result.skills[2].normalizedScore = 0

\* C15: all-correct scenario.  When every single-letter and ordered-list
\* answer matches the key, questions 41-43 satisfy the keyword rule and
\* question 44 is a qualifying essay, the raw scores are 20, 24 and 12, every
\* normalized score is 50, ReadingWriting and Listening are S5 without
\* tie-break, and the overall level is S5.
C15_AllCorrect ==
    ( /\ pc = "returned"
      /\ \A q \in (1..35) \cup (45..56) : letterMatches(q, answerAt(answers, q))
      /\ \A q \in 36..40 : orderingMatches(q, answerAt(answers, q))
      /\ \A q \in 41..43 : textMatches(q, answerAt(answers, q))
      /\ essayMatches(answerAt(answers, 44)) )
    => /\ result.tieBreakerSkill =
            [ skill |-> "GrammarVocabulary", rawScore |-> 20,
              normalizedScore |-> 500 ]
       /\ result.skills =
            << [ skill |-> "ReadingWriting", rawScore |-> 24,
                 normalizedScore |-> 500, level |-> S5,
                 tieBreakerApplied |-> FALSE ],
               [ skill |-> "Listening", rawScore |-> 12,
                 normalizedScore |-> 500, level |-> S5,
                 tieBreakerApplied |-> FALSE ] >>
       /\ result.overallLevel = S5

C15_Witness ==
    /\ pc = "returned"
    /\ DOMAIN answers = 1..56
    /\ answers[36] = <<"B", ",", " ", "C", ",", " ", "D", ",", " ", "A">>
    /\ answers[1] = <<"B">>
    /\ essayMatches(answers[44])
    /\ result.skills[1].rawScore = 24
    /\ result.overallLevel = S5

\* C16: empty scenario.  For the AnswerSet without any answer the raw scores
\* are 0, 0 and 0, every normalized score is 0, ReadingWriting and Listening
\* are S1 without tie-break, and the overall level is S1.
C16_EmptyAnswerSet ==
    (pc = "returned" /\ DOMAIN answers = {})
    => /\ result.tieBreakerSkill =
            [ skill |-> "GrammarVocabulary", rawScore |-> 0,
              normalizedScore |-> 0 ]
       /\ result.skills =
            << [ skill |-> "ReadingWriting", rawScore |-> 0,
                 normalizedScore |-> 0, level |-> S1,
                 tieBreakerApplied |-> FALSE ],
               [ skill |-> "Listening", rawScore |-> 0,
                 normalizedScore |-> 0, level |-> S1,
                 tieBreakerApplied |-> FALSE ] >>
       /\ result.overallLevel = S1

C16_Witness ==
    /\ pc = "returned"
    /\ answers = NoAnswers
    /\ result.overallLevel = S1
    /\ ~result.skills[1].tieBreakerApplied

\* C17: the grammar score is reported without a level, and it influences the
\* result only through the threshold: with the ReadingWriting and Listening
\* raw scores unchanged, every grammar raw score on the same side of 14
\* (normalized 35) gives the same skill entries and the same overall level.
C17_GrammarOnlyThroughThreshold ==
    pc = "done" =>
        /\ DOMAIN result.tieBreakerSkill = {"skill", "rawScore", "normalizedScore"}
        /\ \A g \in 0..20 :
             ((50 * g >= 35 * 20) <=> (grammarScore >= 14)) =>
                LET other == calculateSEMFLevel(
                                [ GrammarVocabulary |-> g,
                                  ReadingWriting |-> readingWritingScore,
                                  Listening |-> listeningScore ])
                IN  /\ other.skills = result.skills
                    /\ other.overallLevel = result.overallLevel
                    /\ other.descriptions = result.descriptions

C17_Witness ==
    /\ pc = "done"
    /\ grammarScore = 20
    /\ listeningScore = 6
    /\ result.skills[2].level = S3
    /\ result.skills[2].tieBreakerApplied

\* C19: a normalized score that no band of the table contains is mapped by
\* mapToLevel to the lowest level S1.
C19_FallbackIsLowest ==
    ( /\ pc = "level-output"
      /\ \A b \in 1..5 :
            \/ normalizedScore.num < LEVEL_CUTOFFS[b].min * normalizedScore.den
            \/ normalizedScore.num > LEVEL_CUTOFFS[b].max * normalizedScore.den )
    => baseLevel = S1

C19_Witness ==
    /\ pc = "level-output"
    /\ normalizedScore.num = 51 * normalizedScore.den
    /\ baseLevel = S1

\* C20: the keys of the report's descriptions are exactly the distinct
\* levels among the ReadingWriting level, the Listening level and the
\* overall level; each key carries that level's fixed description; the
\* overall level always has an entry and there are at most two entries.
C20_Descriptions ==
    pc = "done" =>
        /\ DOMAIN result.descriptions =
             { result.skills[1].level, result.skills[2].level,
               result.overallLevel }
        /\ \A lv \in DOMAIN result.descriptions :
             /\ lv \in DOMAIN LEVEL_DESCRIPTIONS
             /\ result.descriptions[lv] = LEVEL_DESCRIPTIONS[lv]
        /\ result.overallLevel \in DOMAIN result.descriptions
        /\ Cardinality(DOMAIN result.descriptions) <= 2

C20_Witness ==
    /\ pc = "done"
    /\ DOMAIN result.descriptions = {S2, S5}
    /\ result.overallLevel = S2
    /\ result.descriptions[S5] =
         "Mastery - can express ideas precisely in complex situations."

\* C21: for a fixed grammar score, one more raw point in ReadingWriting
\* (0..23) or in Listening (0..11) never gives a lower final level, and never
\* a lower base level by mapToLevel.
C21_MonotoneInOwnScore ==
    pc = "done" =>
        LET ord(level) == CHOOSE k \in 1..5 : LEVEL_CUTOFFS[k].level = level
            gv == normalize(grammarScore, 20)
            notLower(r, max) ==
                /\ ord(applyTieBreaker(normalize(r + 1, max), gv).level)
                     >= ord(applyTieBreaker(normalize(r, max), gv).level)
                /\ ord(mapToLevel(normalize(r + 1, max)))
                     >= ord(mapToLevel(normalize(r, max)))
        IN  /\ result.skills[1].level
                 = applyTieBreaker(normalize(readingWritingScore, 24), gv).level
            /\ result.skills[2].level
                 = applyTieBreaker(normalize(listeningScore, 12), gv).level
            /\ readingWritingScore \in 0..23 => notLower(readingWritingScore, 24)
            /\ listeningScore \in 0..11 => notLower(listeningScore, 12)

\* C22: the level and the flag applyTieBreaker returns are those of a scan
\* of all five bands in ascending order that never exits early and keeps the
\* result of the last band that produced one (the base level with the flag
\* false when no band produced one).
C22_LastMatchWins ==
    pc = "level-output" =>
        LET x == normalizedScore
            gv == grammarVocabNorm
            up(k) ==
                /\ x.num >= (LEVEL_CUTOFFS[k].min - 2) * x.den
                /\ x.num < LEVEL_CUTOFFS[k].min * x.den
                /\ gv.num >= 35 * gv.den
            down(k) ==
                /\ x.num > LEVEL_CUTOFFS[k].max * x.den
                /\ x.num <= (LEVEL_CUTOFFS[k].max + 2) * x.den
                /\ gv.num < 35 * gv.den
                /\ k > 1
            produced == { k \in 1..5 : up(k) \/ down(k) }
            last == CHOOSE k \in produced : \A j \in produced : j <= k
            scanned ==
                IF produced = {}
                THEN [level |-> baseLevel, tieBreakerApplied |-> FALSE]
                ELSE IF up(last)
                THEN [level |-> LEVEL_CUTOFFS[last].level,
                      tieBreakerApplied |-> TRUE]
                ELSE [level |-> LEVEL_CUTOFFS[last - 1].level,
                      tieBreakerApplied |-> TRUE]
        IN  tieBreak = scanned

C22_Witness ==
    /\ pc = "level-output"
    /\ 4 * normalizedScore.num = 175 * normalizedScore.den
    /\ grammarVocabNorm.num < 35 * grammarVocabNorm.den
    /\ baseLevel = S5
    /\ tieBreak = [level |-> S3, tieBreakerApplied |-> TRUE]

\* C23: when the score lies in no band's window below its minimum (with the
\* grammar score at least 35) and in no band's window above its maximum
\* (with the grammar score below 35), applyTieBreaker returns the base level
\* of mapToLevel with tieBreakerApplied false; and tieBreakerApplied is true
\* only when the score lies in such a window.
C23_NoWindowKeepsBase ==
    pc = "level-output" =>
        LET x == normalizedScore
            gv == grammarVocabNorm
            inWindow ==
                \E k \in 1..5 :
                    \/ /\ gv.num >= 35 * gv.den
                       /\ x.num >= (LEVEL_CUTOFFS[k].min - 2) * x.den
                       /\ x.num < LEVEL_CUTOFFS[k].min * x.den
                    \/ /\ gv.num < 35 * gv.den
                       /\ x.num > LEVEL_CUTOFFS[k].max * x.den
                       /\ x.num <= (LEVEL_CUTOFFS[k].max + 2) * x.den
        IN  /\ ~inWindow =>
                tieBreak = [level |-> baseLevel, tieBreakerApplied |-> FALSE]
            /\ tieBreak.tieBreakerApplied => inWindow

C23_Witness ==
    /\ pc = "level-output"
    /\ normalizedScore.num = 30 * normalizedScore.den
    /\ grammarVocabNorm.num >= 35 * grammarVocabNorm.den
    /\ baseLevel = S3
    /\ tieBreak = [level |-> S3, tieBreakerApplied |-> FALSE]

\* C24: a score just above the upper boundary of the lowest band
\* (15 < score <= 17) with a grammar score below 35 is not adjusted
\* downwards: the level is the base level and tieBreakerApplied is false;
\* 16.67 (ReadingWriting raw 8, Listening raw 4) stays S2.
C24_NoDemotionAtLowestBand ==
    ( /\ pc = "level-output"
      /\ normalizedScore.num > 15 * normalizedScore.den
      /\ normalizedScore.num <= 17 * normalizedScore.den
      /\ grammarVocabNorm.num < 35 * grammarVocabNorm.den )
    => /\ tieBreak.level = baseLevel
       /\ ~tieBreak.tieBreakerApplied
       /\ 24 * normalizedScore.num = 8 * 50 * normalizedScore.den
            => tieBreak.level = S2

C24_Witness ==
    /\ pc = "level-output"
    /\ 12 * normalizedScore.num = 4 * 50 * normalizedScore.den
    /\ grammarVocabNorm.num < 35 * grammarVocabNorm.den
    /\ baseLevel = S2
    /\ tieBreak = [level |-> S2, tieBreakerApplied |-> FALSE]

\* C25: with the ReadingWriting and Listening raw scores fixed, a higher
\* grammar raw score (0..20) never gives a lower ReadingWriting level, a
\* lower Listening level or a lower overall level.
C25_MonotoneInGrammar ==
    pc = "done" =>
        LET ord(level) == CHOOSE k \in 1..5 : LEVEL_CUTOFFS[k].level = level
        IN  \A g \in grammarScore..20 :
                LET higher == calculateSEMFLevel(
                                 [ GrammarVocabulary |-> g,
                                   ReadingWriting |-> readingWritingScore,
                                   Listening |-> listeningScore ])
                IN  /\ ord(higher.skills[1].level) >= ord(result.skills[1].level)
                    /\ ord(higher.skills[2].level) >= ord(result.skills[2].level)
                    /\ ord(higher.overallLevel) >= ord(result.overallLevel)

C25_Witness ==
    /\ pc = "done"
    /\ grammarScore = 13
    /\ readingWritingScore = 16
    /\ listeningScore = 10
    /\ result.skills[1].level = S2
    /\ result.skills[2].level = S4
    /\ result.overallLevel = S2
    /\ calculateSEMFLevel([ GrammarVocabulary |-> 14,
                            ReadingWriting |-> 16,
                            Listening |-> 10 ]).overallLevel = S4

\* C26: the skills are scored independently.  Replacing the answers to
\* questions 45-56, and only those, leaves the ReadingWriting entry of the
\* report (raw score, normalized score, level, flag) unchanged; replacing
\* only the answers to questions 21-44 leaves the Listening entry unchanged;
\* either leaves the grammar entry unchanged.  Replacing only the answers to
\* questions 1-20 leaves both raw and normalized skill scores unchanged, and
\* leaves the levels and flags unchanged too unless the grammar score
\* crosses 35.  (Every answer of the section is replaced: one that earns
\* the point by a wrong one, any other by one that earns the point.)
C26_SkillIndependence ==
    pc = "returned" =>
        LET replaced(section) ==
                [ q \in DOMAIN answers \cup section |->
                    IF q \notin section THEN answers[q]
                    ELSE IF answerAt(answers, q) \in
                              {goodAnswer(q, FALSE), goodAnswer(q, TRUE)}
                    THEN badAnswer(q, "wrong")
                    ELSE goodAnswer(q, FALSE) ]
            report(ans) == calculateSEMFLevel(calculateActualScores(ans))
            measured(entry) == <<entry.rawScore, entry.normalizedScore>>
        IN  /\ \A other \in {report(replaced(45..56))} :
                /\ other.skills[2].rawScore = 12 - listeningScore
                /\ other.skills[1] = result.skills[1]
                /\ other.tieBreakerSkill = result.tieBreakerSkill
            /\ \A other \in {report(replaced(21..44))} :
                /\ other.skills[1].rawScore = 24 - readingWritingScore
                /\ other.skills[2] = result.skills[2]
                /\ other.tieBreakerSkill = result.tieBreakerSkill
            /\ \A other \in {report(replaced(1..20))} :
                /\ other.tieBreakerSkill.rawScore = 20 - grammarScore
                /\ \A k \in 1..2 :
                      measured(other.skills[k]) = measured(result.skills[k])
                /\ ((other.tieBreakerSkill.rawScore >= 14)
                      <=> (grammarScore >= 14))
                     => other.skills = result.skills

C26_Witness ==
    /\ pc = "returned"
    /\ grammarScore = 13
    /\ readingWritingScore = 24
    /\ listeningScore = 8
    /\ result.skills[2].level = S2
    /\ calculateSEMFLevel(calculateActualScores(
          [ q \in DOMAIN answers \cup 1..20 |->
              IF q \in 1..20 THEN goodAnswer(q, FALSE) ELSE answers[q] ]
       )).skills[2].level = S4

\* C27: the Test Completion figure of the summary is round(100 * a / 56),
\* where a is the number of questions 1..56 that have a non-empty answer,
\* and it lies between 0 and 100.
C27_TestCompletion ==
    pc = "returned" =>
        LET a == Cardinality({ q \in 1..56 :
                     answerAt(answers, q) \notin {Undefined, <<>>} })
        IN  /\ 2 * 56 * result.summary.testCompletion <= 200 * a + 56
            /\ 2 * 56 * (result.summary.testCompletion + 1) > 200 * a + 56
            /\ result.summary.testCompletion \in 0..100

C29_TouchGestureClearsDragState ==
    [][ (pc = "handleTouchStart" /\ pc' = "handleTouchEnd") =>
          /\ draggedItem' = Null
          /\ touchStartY' = nullNumber
          /\ isDragging' = FALSE
          /\ \/ orderedSentences' = orderedSentences
             \/ /\ abs(clientY' - clientY) > 40
                /\ \E k \in 1..(Len(orderedSentences) - 1) :
                      orderedSentences' =
                        [ orderedSentences EXCEPT
                            ![k] = orderedSentences[k + 1],
                            ![k + 1] = orderedSentences[k] ] ]_vars

\* C30: mounted with the answer updateAnswer emits for an order p of the
\* sentences as selectedAnswer, the component starts in the order p; mounted
\* with a selectedAnswer that is absent or empty, has no comma, or whose
\* pieces between the ", " separators name fewer or more sentences than the
\* question has, it starts in the extracted order.
C30_OrderRoundTrip ==
    pc = "mounted" =>
        /\ \A p \in permutationsOf(sentences) :
              selectedAnswer = updateAnswer(p) => orderedSentences = p
        /\ ( \/ selectedAnswer \in {Undefined, <<>>}
             \/ \A k \in DOMAIN selectedAnswer : selectedAnswer[k] # ","
             \/ Cardinality({ k \in DOMAIN split(selectedAnswer, <<",", " ">>) :
                   \E j \in DOMAIN sentences :
                      sentences[j].letter
                        = split(selectedAnswer, <<",", " ">>)[k] })
                  # Len(sentences) )
           => orderedSentences = sentences

C30_Witness ==
    /\ pc = "mounted"
    /\ selectedAnswer = <<"C", ",", " ", "A", ",", " ", "B">>
    /\ Len(orderedSentences) = 3
    /\ orderedSentences[1].letter = <<"C">>
    /\ orderedSentences[2].letter = <<"A">>
    /\ orderedSentences[3].letter = <<"B">>

====
